---------------------------- MODULE Spec2Model ----------------------------
(***************************************************************************)
(* A model of the Flappy Bird game of src/main.rs: the per-frame update    *)
(* of Game (Game::update), with the bird, the pipes, the particles, the    *)
(* score and the per-difficulty high scores.                               *)
(*                                                                         *)
(* Numbers.  The program computes in f32.  Every length and velocity here  *)
(* is an integer number of twentieths of a pixel (1 px = 20), in which all *)
(* the program's constants and all pipe speeds (2.0, 2.5, 3.0, 3.8, and    *)
(* their halves under slow motion) are whole.  The spawn timer and the     *)
(* background offset are counted in half frames (time_scale 1.0 = 2,       *)
(* 0.5 = 1).  A particle's life is counted in updates left (see LIFE).     *)
(***************************************************************************)
EXTENDS Integers, Sequences, FiniteSets, TLC

VARIABLES
    state,              \* Game.state: "Menu", "Playing", "Paused", "GameOver"
    difficulty,         \* Game.difficulty
    bird,               \* Game.bird: [x, y, velocity, rotation]
    pipes,              \* Game.pipes: sequence of [x, gap_y, gap_height, scored, id]
    particles,          \* Game.particles: sequence of [color, life]
    score,              \* Game.score
    high_scores,        \* Game.high_scores: [easy, medium, hard, extreme]
    pipe_spawn_timer,   \* Game.pipe_spawn_timer (half frames)
    background_offset,  \* Game.background_offset (half frames)
    show_hitboxes,      \* Game.show_hitboxes
    powerup_timer,      \* Game.powerup_timer
    invincible,         \* Game.invincible
    slow_motion,        \* Game.slow_motion
    slow_motion_timer,  \* Game.slow_motion_timer
    file,               \* highscores.json: [exists, text]
    log,                \* what the last frame (or call) did, for the properties
    hist                \* counters kept since the last reset, for the properties

gameVars == <<state, difficulty, bird, pipes, particles, score, high_scores,
              pipe_spawn_timer, background_offset, show_hitboxes, powerup_timer,
              invincible, slow_motion, slow_motion_timer>>
vars == <<state, difficulty, bird, pipes, particles, score, high_scores,
          pipe_spawn_timer, background_offset, show_hitboxes, powerup_timer,
          invincible, slow_motion, slow_motion_timer, file, log, hist>>

---------------------------------------------------------------------------
(* Bounds of the exploration.                                              *)

\* Playing frames explored in the first run after a reset.
MaxTicks == 335
\* Playing frames explored in every later run.
RetryTicks == 2
\* Resets (starts and retries) explored.
MaxRuns == 2
\* Keys that the current mode handles pressed in one frame.
MaxKeys == 2
\* The player jumps or pauses only when the bird's velocity is JumpAfter
\* gravity steps (the rhythm that keeps the bird level); in the first
\* ClimbTicks frames of a run the player may also jump in the frame after a
\* jump, and from the second such jump on jumps in every frame (a climb).
\* The slow-motion key is pressed only in the first frame of a run.
JumpAfter == 15
ClimbTicks == 20
\* A run is followed while the bird is at most MaxDepth px below the top of
\* the field and at most MaxHeight px above it (an invincible bird leaves
\* the field for ever).
MaxDepth == 560
MaxHeight == 40

Px(n) == n * 20

---------------------------------------------------------------------------
(* Constants of the program.                                               *)

GRAVITY == 10
JUMP_STRENGTH == -160
BIRD_SIZE == 600
PIPE_WIDTH == 1200
GROUND_HEIGHT == 1600
SCREEN_WIDTH == 16000
SCREEN_HEIGHT == 12000
\* f32: 1.0 - k * 0.02 is first <= 0.0 at k = 51 (0.02 as f32 is below 1/50),
\* so a particle is retained for 50 updates and removed by the 51st.
LIFE == 51
\* pipe_spawn_timer > 90.0, in half frames
SPAWN_AFTER == 180
\* background_offset <= -50.0, in half frames
BACKGROUND_WRAP == -100

GameStates == {"Menu", "Playing", "Paused", "GameOver"}
Difficulties == {"Easy", "Medium", "Hard", "Extreme"}

pipe_gap(d) ==
    CASE d = "Easy" -> Px(220)
      [] d = "Medium" -> Px(180)
      [] d = "Hard" -> Px(140)
      [] d = "Extreme" -> Px(120)

pipe_speed(d) ==
    CASE d = "Easy" -> 40
      [] d = "Medium" -> 50
      [] d = "Hard" -> 60
      [] d = "Extreme" -> 76

---------------------------------------------------------------------------
(* Bird                                                                    *)

Clamp(v, lo, hi) == IF v < lo THEN lo ELSE IF v > hi THEN hi ELSE v

Bird_new(x, y) == [x |-> x, y |-> y, velocity |-> 0, rotation |-> 0]

\* A variant of Bird_update: the velocity of before the call is added to y.
Bird_update_old_velocity(b) ==
    LET v == b.velocity + GRAVITY
    IN  [b EXCEPT !.velocity = v,
                  !.y = b.y + b.velocity,
                  !.rotation = Clamp(v * 3, Px(-30), Px(90))]

Bird_update(b) ==
    LET v == b.velocity + GRAVITY
    IN  [b EXCEPT !.velocity = v,
                  !.y = b.y + v,
                  !.rotation = Clamp(v * 3, Px(-30), Px(90))]

\* A variant of Bird_jump: the impulse is added to the velocity.
Bird_jump_additive(b) == [b EXCEPT !.velocity = @ + JUMP_STRENGTH]

Bird_jump(b) == [b EXCEPT !.velocity = JUMP_STRENGTH]

\* Rect::new(x, y, w, h) as [left, top, right, bottom]
Rect(x, y, w, h) == [left |-> x, top |-> y, right |-> x + w, bottom |-> y + h]

\* macroquad's Rect::overlaps: the edges count.
Overlaps(a, b) ==
    /\ a.left <= b.right
    /\ a.right >= b.left
    /\ a.top <= b.bottom
    /\ a.bottom >= b.top

Bird_get_bounds(b) ==
    Rect(b.x - BIRD_SIZE \div 2 + Px(5), b.y - BIRD_SIZE \div 2 + Px(5),
         BIRD_SIZE - Px(10), BIRD_SIZE - Px(10))

---------------------------------------------------------------------------
(* Pipe                                                                    *)

GapBandLow == Px(150)
\* A variant of GapBandHigh: the margin of 100 above the ground is left out.
GapBandHigh_no_margin(gap_height) == SCREEN_HEIGHT - GROUND_HEIGHT - gap_height

GapBandHigh(gap_height) == SCREEN_HEIGHT - GROUND_HEIGHT - gap_height - Px(100)

\* rng.gen_range(150.0 .. high): every value from 150.0 up to but not
\* including high.
GapRange(gap_height) == GapBandLow .. GapBandHigh(gap_height) - 1

\* rng.gen_range(150.0 .. high): the values of the band that are explored,
\* its lowest value and one 20 px below its upper end.
GapYs(gap_height) ==
    {y \in {GapBandLow, GapBandHigh(gap_height) - Px(20)} :
        GapBandLow <= y /\ y < GapBandHigh(gap_height)}

\* id is not a field of the program's Pipe: it numbers the pipes of a run in
\* the order of their creation, so that the properties can follow one pipe.
Pipe_new(x, gap_height, gap_y, id) ==
    [x |-> x, gap_y |-> gap_y, gap_height |-> gap_height, scored |-> FALSE,
     id |-> id]

\* A variant of Pipe_update: the pipe moves by half the speed.
Pipe_update_half(p, speed) == [p EXCEPT !.x = p.x - speed \div 2]

Pipe_update(p, speed) == [p EXCEPT !.x = p.x - speed]

\* A variant of Pipe_collides_with: only the top pipe is tested.
Pipe_collides_with_top_only(p, b) ==
    LET bird_bounds == Bird_get_bounds(b)
        top_pipe == Rect(p.x, 0, PIPE_WIDTH, p.gap_y)
    IN  Overlaps(bird_bounds, top_pipe)

Pipe_collides_with(p, b) ==
    LET bird_bounds == Bird_get_bounds(b)
        top_pipe == Rect(p.x, 0, PIPE_WIDTH, p.gap_y)
        bottom_y == p.gap_y + p.gap_height
        bottom_pipe == Rect(p.x, bottom_y, PIPE_WIDTH,
                            SCREEN_HEIGHT - bottom_y - GROUND_HEIGHT)
    IN  Overlaps(bird_bounds, top_pipe) \/ Overlaps(bird_bounds, bottom_pipe)

\* A variant of Pipe_is_offscreen: the left edge is tested, not the right one.
Pipe_is_offscreen_left_edge(p) == p.x < 0

Pipe_is_offscreen(p) == p.x + PIPE_WIDTH < 0

---------------------------------------------------------------------------
(* HighScores                                                              *)

HighScores_default == [easy |-> 0, medium |-> 0, hard |-> 0, extreme |-> 0]

HighScores_get(hs, d) ==
    CASE d = "Easy" -> hs.easy
      [] d = "Medium" -> hs.medium
      [] d = "Hard" -> hs.hard
      [] d = "Extreme" -> hs.extreme

HighScores_set(hs, d, s) ==
    CASE d = "Easy" -> [hs EXCEPT !.easy = s]
      [] d = "Medium" -> [hs EXCEPT !.medium = s]
      [] d = "Hard" -> [hs EXCEPT !.hard = s]
      [] d = "Extreme" -> [hs EXCEPT !.extreme = s]

\* A variant of HighScores_update: a score equal to the best counts as a new best.
HighScores_update_or_equal(hs, d, s) ==
    LET current_high == HighScores_get(hs, d)
    IN  IF s >= current_high
        THEN [hs |-> HighScores_set(hs, d, s), ret |-> TRUE]
        ELSE [hs |-> hs, ret |-> FALSE]

\* update(&mut self, difficulty, score) -> bool, as [hs, ret]
HighScores_update(hs, d, s) ==
    LET current_high == HighScores_get(hs, d)
    IN  IF s > current_high
        THEN [hs |-> HighScores_set(hs, d, s), ret |-> TRUE]
        ELSE [hs |-> hs, ret |-> FALSE]

\* highscores.json.  The text of the file is the sequence of its tokens: the
\* braces, colons and commas, the field names, and the characters of the
\* numbers; white space is left out.
NoFile == [exists |-> FALSE, text |-> <<>>]

Written(text) == [exists |-> TRUE, text |-> text]

FieldNames == <<"easy", "medium", "hard", "extreme">>

DigitChars == <<"0", "1", "2", "3", "4", "5", "6", "7", "8", "9">>

IsDigit(c) == \E n \in 1 .. 10 : DigitChars[n] = c

DigitValue(c) == (CHOOSE n \in 1 .. 10 : DigitChars[n] = c) - 1

\* i32::MIN; the integers of the model are those of i32.
I32Min == -2147483647 - 1

\* The decimal digits of the magnitude of n <= 0, as itoa writes them.
RECURSIVE Digits(_)
Digits(n) ==
    LET digit == (10 - (n % 10)) % 10
    IN  IF n > -10 THEN <<DigitChars[digit + 1]>>
        ELSE Append(Digits((n + digit) \div 10), DigitChars[digit + 1])

NumberText(n) == IF n < 0 THEN <<"-">> \o Digits(n) ELSE Digits(0 - n)

FieldText(name, n) == <<name, ":">> \o NumberText(n)

\* A variant of HighScores_to_text: hard and extreme are written under each
\* other's name (a slip in the names the fields are serialized under).
HighScores_to_text_swapped(hs) ==
    <<"{">> \o FieldText("easy", hs.easy) \o <<",">>
            \o FieldText("medium", hs.medium) \o <<",">>
            \o FieldText("hard", hs.extreme) \o <<",">>
            \o FieldText("extreme", hs.hard) \o <<"}">>

\* serde_json::to_string_pretty(self), for #[derive(Serialize)] HighScores
HighScores_to_text(hs) ==
    <<"{">> \o FieldText("easy", hs.easy) \o <<",">>
            \o FieldText("medium", hs.medium) \o <<",">>
            \o FieldText("hard", hs.hard) \o <<",">>
            \o FieldText("extreme", hs.extreme) \o <<"}">>

\* The digits of t from position i on, as [value, big, next]: value is minus
\* the number they write, and big says that the number is above 2^31.
RECURSIVE ParseDigits(_, _, _, _)
ParseDigits(t, i, acc, big) ==
    IF i <= Len(t) /\ IsDigit(t[i])
    THEN LET d == DigitValue(t[i])
             fits == ~big /\ (acc > -214748364 \/ (acc = -214748364 /\ d <= 8))
         IN  ParseDigits(t, i + 1, IF fits THEN acc * 10 - d ELSE 0, ~fits)
    ELSE [value |-> acc, big |-> big, next |-> i]

\* A JSON integer of t at position i, as [ok, i32, value, next]: ok says
\* that a number is written there, i32 that it is one of i32.
ParseNumber(t, i) ==
    LET neg == i <= Len(t) /\ t[i] = "-"
        j == IF neg THEN i + 1 ELSE i
        has == j <= Len(t) /\ IsDigit(t[j])
        padded == has /\ t[j] = "0" /\ j + 1 <= Len(t) /\ IsDigit(t[j + 1])
        d == ParseDigits(t, j, 0, FALSE)
        i32 == ~d.big /\ (neg \/ d.value # I32Min)
    IN  [ok |-> has /\ ~padded,
         i32 |-> i32,
         value |-> IF ~i32 THEN 0 ELSE IF neg THEN d.value ELSE 0 - d.value,
         next |-> d.next]

ParseError == [ok |-> FALSE, hs |-> HighScores_default]

IsName(c) == ~IsDigit(c) /\ c \notin {"{", "}", ":", ",", "-"}

Field(seen, name) == (CHOOSE m \in seen : m[1] = name)[2]

\* The members of the object from position i on; seen is the set of the
\* <<name, value>> of the fields read so far.  As the Deserialize that
\* #[derive(Deserialize)] gives HighScores: a field must be an i32, an
\* unknown name is passed over, and a field named twice or not at all is an
\* error.
RECURSIVE ParseMembers(_, _, _)
ParseMembers(t, i, seen) ==
    IF ~(i + 1 <= Len(t) /\ IsName(t[i]) /\ t[i + 1] = ":") THEN ParseError
    ELSE
        LET name == t[i]
            known == \E k \in 1 .. 4 : FieldNames[k] = name
            n == ParseNumber(t, i + 2)
            seen2 == IF known THEN seen \cup {<<name, n.value>>} ELSE seen
        IN  IF ~n.ok THEN ParseError
            ELSE IF known /\ ~n.i32 THEN ParseError
            ELSE IF known /\ (\E m \in seen : m[1] = name) THEN ParseError
            ELSE IF n.next <= Len(t) /\ t[n.next] = ","
            THEN ParseMembers(t, n.next + 1, seen2)
            ELSE IF n.next = Len(t) /\ t[n.next] = "}"
            THEN IF \A k \in 1 .. 4 : \E m \in seen2 : m[1] = FieldNames[k]
                 THEN [ok |-> TRUE,
                       hs |-> [easy |-> Field(seen2, "easy"),
                               medium |-> Field(seen2, "medium"),
                               hard |-> Field(seen2, "hard"),
                               extreme |-> Field(seen2, "extreme")]]
                 ELSE ParseError
            ELSE ParseError

\* serde_json::from_str::<HighScores>(&data), as [ok, hs]
HighScores_from_text(t) ==
    IF Len(t) >= 2 /\ t[1] = "{" THEN ParseMembers(t, 2, {}) ELSE ParseError

\* HighScores::load
HighScores_load(f) ==
    IF f.exists
    THEN LET r == HighScores_from_text(f.text)
         IN  IF r.ok THEN r.hs ELSE HighScores_default
    ELSE HighScores_default

\* HighScores::save, with a write that succeeds
HighScores_save(hs) == Written(HighScores_to_text(hs))

---------------------------------------------------------------------------
(* Particle                                                                *)

\* The position, velocity and size of a particle, which only Particle::draw
\* reads, are left out; its color names the burst it belongs to.
Particle_update(p) == [p EXCEPT !.life = p.life - 1]

Particle_is_dead(p) == p.life <= 0

---------------------------------------------------------------------------
(* Game.  A value g of the operators below is the whole Game as a record   *)
(* of the variables; an operator is one method, or one stretch of          *)
(* Game::update, and yields the Game after it.                             *)

\* What a frame has done so far: the calls of HighScores::update (with
\* their results) and of HighScores::save, the mode the frame began in, and
\* whether it began outside Playing with none of the keys its mode handles.
NoLog == [hs_calls |-> <<>>, saves |-> 0, mode |-> "None", idle |-> FALSE]

\* Since the last reset: the Playing frames run, the resets so far, the pipes
\* created, the ids of the pipes the score was raised for (in that order),
\* the pipes removed, the frames in a row that ended with a jump, and the
\* frames in a row run in slow motion without a jump (n) with the bird as it
\* was before the first of them.
NoCalm == [n |-> 0, y |-> 0, velocity |-> 0]

NoHist == [ticks |-> 0, runs |-> 0, spawned |-> 0, awards |-> <<>>,
           purged |-> {}, streak |-> 0, calm |-> NoCalm]

Game_new(f) ==
    [state |-> "Menu",
     difficulty |-> "Medium",
     bird |-> Bird_new(Px(150), SCREEN_HEIGHT \div 2),
     pipes |-> <<>>,
     particles |-> <<>>,
     score |-> 0,
     high_scores |-> HighScores_load(f),
     pipe_spawn_timer |-> 0,
     background_offset |-> 0,
     show_hitboxes |-> FALSE,
     powerup_timer |-> 0,
     invincible |-> FALSE,
     slow_motion |-> FALSE,
     slow_motion_timer |-> 0,
     file |-> f,
     log |-> NoLog,
     hist |-> NoHist]

\* A variant of Game_reset: the pipes are not cleared.
Game_reset_keeps_pipes(g) ==
    [g EXCEPT !.bird = Bird_new(Px(150), SCREEN_HEIGHT \div 2),
              !.particles = <<>>,
              !.score = 0,
              !.pipe_spawn_timer = 0,
              !.invincible = FALSE,
              !.slow_motion = FALSE,
              !.slow_motion_timer = 0,
              !.hist = [NoHist EXCEPT !.runs = g.hist.runs + 1]]

Game_reset(g) ==
    [g EXCEPT !.bird = Bird_new(Px(150), SCREEN_HEIGHT \div 2),
              !.pipes = <<>>,
              !.particles = <<>>,
              !.score = 0,
              !.pipe_spawn_timer = 0,
              !.invincible = FALSE,
              !.slow_motion = FALSE,
              !.slow_motion_timer = 0,
              !.hist = [NoHist EXCEPT !.runs = g.hist.runs + 1]]

\* A variant of Game_spawn_pipe: the gap is the constant PIPE_GAP (180.0).
Game_spawn_pipe_fixed_gap(g, gap_y) ==
    LET x == SCREEN_WIDTH + Px(50)
    IN  [g EXCEPT !.pipes = Append(@, Pipe_new(x, Px(180), gap_y,
                                               g.hist.spawned + 1)),
                  !.hist.spawned = @ + 1]

Game_spawn_pipe(g, gap_y) ==
    LET x == SCREEN_WIDTH + Px(50)
    IN  [g EXCEPT !.pipes = Append(@, Pipe_new(x, pipe_gap(g.difficulty), gap_y,
                                               g.hist.spawned + 1)),
                  !.hist.spawned = @ + 1]

Game_spawn_particles(g, color, count) ==
    [g EXCEPT !.particles =
        @ \o [k \in 1 .. count |-> [color |-> color, life |-> LIFE]]]

\* A variant of Game_update_high_score: the record is saved before it is
\* updated, whatever update returns.
Game_update_high_score_saves_first(g) ==
    LET r == HighScores_update(g.high_scores, g.difficulty, g.score)
    IN  [g EXCEPT !.high_scores = r.hs,
                  !.file = HighScores_save(g.high_scores),
                  !.log.hs_calls = Append(@, [d |-> g.difficulty, s |-> g.score,
                                              ret |-> r.ret]),
                  !.log.saves = @ + 1]

\* if self.high_scores.update(self.difficulty, self.score) { self.high_scores.save(); }
Game_update_high_score(g) ==
    LET r == HighScores_update(g.high_scores, g.difficulty, g.score)
    IN  [g EXCEPT !.high_scores = r.hs,
                  !.file = IF r.ret THEN HighScores_save(r.hs) ELSE @,
                  !.log.hs_calls = Append(@, [d |-> g.difficulty, s |-> g.score,
                                              ret |-> r.ret]),
                  !.log.saves = IF r.ret THEN @ + 1 ELSE @]

\* The body of either collision branch of Game::update.
Game_collision(g) ==
    Game_update_high_score(
        Game_spawn_particles([g EXCEPT !.state = "GameOver"], "RED", 30))

\* GameState::Menu
Game_update_Menu(g, keys) ==
    LET g1 == IF "Space" \in keys \/ "Enter" \in keys
              THEN [Game_reset(g) EXCEPT !.state = "Playing"]
              ELSE g
        g2 == IF "Key1" \in keys THEN [g1 EXCEPT !.difficulty = "Easy"] ELSE g1
        g3 == IF "Key2" \in keys THEN [g2 EXCEPT !.difficulty = "Medium"] ELSE g2
        g4 == IF "Key3" \in keys THEN [g3 EXCEPT !.difficulty = "Hard"] ELSE g3
        g5 == IF "Key4" \in keys THEN [g4 EXCEPT !.difficulty = "Extreme"] ELSE g4
    IN  g5

\* A variant of Game_update_Paused: Q ends the run instead of leaving it.
Game_update_Paused_quit_over(g, keys) ==
    LET g1 == IF "Escape" \in keys \/ "Space" \in keys
              THEN [g EXCEPT !.state = "Playing"]
              ELSE g
        g2 == IF "Q" \in keys THEN [g1 EXCEPT !.state = "GameOver"] ELSE g1
    IN  g2

\* A variant of Game_update_Paused: Q records the score of the abandoned run.
Game_update_Paused_quit_records(g, keys) ==
    LET g1 == IF "Escape" \in keys \/ "Space" \in keys
              THEN [g EXCEPT !.state = "Playing"]
              ELSE g
        g2 == IF "Q" \in keys
              THEN [Game_update_high_score(g1) EXCEPT !.state = "Menu"]
              ELSE g1
    IN  g2

\* GameState::Paused
Game_update_Paused(g, keys) ==
    LET g1 == IF "Escape" \in keys \/ "Space" \in keys
              THEN [g EXCEPT !.state = "Playing"]
              ELSE g
        g2 == IF "Q" \in keys THEN [g1 EXCEPT !.state = "Menu"] ELSE g1
    IN  g2

\* GameState::GameOver
Game_update_GameOver(g, keys) ==
    LET g1 == IF "Space" \in keys \/ "Enter" \in keys
              THEN [Game_reset(g) EXCEPT !.state = "Playing"]
              ELSE g
        g2 == IF "Escape" \in keys \/ "Q" \in keys
              THEN [g1 EXCEPT !.state = "Menu"]
              ELSE g1
    IN  g2

\* GameState::Playing, from the jump to the increment of the spawn timer.
time_scale(g) == IF g.slow_motion THEN 1 ELSE 2

Playing_input(g, keys) ==
    LET g1 == IF "Space" \in keys \/ "MouseLeft" \in keys
              THEN Game_spawn_particles([g EXCEPT !.bird = Bird_jump(@),
                                                  !.hist.streak = @ + 1],
                                        "SKYBLUE", 5)
              ELSE [g EXCEPT !.hist.streak = 0]
        g2 == IF "H" \in keys THEN [g1 EXCEPT !.show_hitboxes = ~@] ELSE g1
        g3 == IF "I" \in keys THEN [g2 EXCEPT !.invincible = ~@] ELSE g2
        g4 == IF "S" \in keys THEN [g3 EXCEPT !.slow_motion = ~@] ELSE g3
    IN  g4

Playing_move(g) ==
    LET g1 == [g EXCEPT !.bird = Bird_update(@),
                        !.hist.calm =
                            IF g.slow_motion /\ g.hist.streak = 0
                            THEN IF @.n = 0
                                 THEN [n |-> 1, y |-> g.bird.y,
                                       velocity |-> g.bird.velocity]
                                 ELSE [@ EXCEPT !.n = @ + 1]
                            ELSE NoCalm]
        off == g1.background_offset - time_scale(g1)
        g2 == [g1 EXCEPT !.background_offset =
                            IF off <= BACKGROUND_WRAP THEN 0 ELSE off]
    IN  [g2 EXCEPT !.pipe_spawn_timer = @ + time_scale(g2)]

\* A variant of Playing_spawns: the pipe is spawned when the timer reaches
\* 90.0.
Playing_spawns_at_threshold(g) == g.pipe_spawn_timer >= SPAWN_AFTER

\* if self.pipe_spawn_timer > 90.0
Playing_spawns(g) == g.pipe_spawn_timer > SPAWN_AFTER

Playing_spawn(g, gap_y) ==
    [Game_spawn_pipe(g, gap_y) EXCEPT !.pipe_spawn_timer = 0]

\* Variants of Pipe_passed: the pipe's left edge is compared; the scored flag
\* is not read.
Pipe_passed_left_edge(p, b) == ~p.scored /\ p.x < b.x

Pipe_passed_again(p, b) == p.x + PIPE_WIDTH < b.x

\* if !pipe.scored && pipe.x + PIPE_WIDTH < self.bird.x
Pipe_passed(p, b) == ~p.scored /\ p.x + PIPE_WIDTH < b.x

\* A variant of Playing_pipe: the collision is checked before the pipe is
\* scored.
Playing_pipe_collision_first(g, i, speed) ==
    LET p1 == Pipe_update(g.pipes[i], speed)
        g0 == [g EXCEPT !.pipes[i] = p1]
        g1 == IF ~g0.invincible /\ Pipe_collides_with(p1, g0.bird)
              THEN Game_collision(g0)
              ELSE g0
    IN  IF Pipe_passed(p1, g1.bird)
        THEN Game_spawn_particles(
                 [g1 EXCEPT !.pipes[i] = [p1 EXCEPT !.scored = TRUE],
                            !.score = @ + 1,
                            !.hist.awards = Append(@, p1.id)],
                 "GOLD", 15)
        ELSE g1

\* One turn of  for pipe in &mut self.pipes  on the pipe at index i.
Playing_pipe(g, i, speed) ==
    LET p1 == Pipe_update(g.pipes[i], speed)
        passed == Pipe_passed(p1, g.bird)
        g1 == IF passed
              THEN Game_spawn_particles(
                       [g EXCEPT !.pipes[i] = [p1 EXCEPT !.scored = TRUE],
                                 !.score = @ + 1,
                                 !.hist.awards = Append(@, p1.id)],
                       "GOLD", 15)
              ELSE [g EXCEPT !.pipes[i] = p1]
    IN  IF ~g1.invincible /\ Pipe_collides_with(g1.pipes[i], g1.bird)
        THEN Game_collision(g1)
        ELSE g1

RECURSIVE Playing_pipes(_, _, _)
Playing_pipes(g, i, speed) ==
    IF i > Len(g.pipes) THEN g
    ELSE Playing_pipes(Playing_pipe(g, i, speed), i + 1, speed)

\* self.pipes.retain(|pipe| !pipe.is_offscreen())
Playing_retain(g) ==
    [g EXCEPT !.pipes = SelectSeq(@, LAMBDA p : ~Pipe_is_offscreen(p)),
              !.hist.purged = @ \cup {[id |-> g.pipes[k].id,
                                        scored |-> g.pipes[k].scored] :
                                       k \in {j \in 1 .. Len(g.pipes) :
                                                Pipe_is_offscreen(g.pipes[j])}}]

\* A variant of Bird_out_of_field: only the ceiling is tested.
Bird_out_of_field_ceiling_only(b) == b.y - BIRD_SIZE \div 2 <= 0

Bird_out_of_field(b) ==
    \/ b.y - BIRD_SIZE \div 2 <= 0
    \/ b.y + BIRD_SIZE \div 2 >= SCREEN_HEIGHT - GROUND_HEIGHT

\* A variant of Playing_bounds: the invincible flag is not read.
Playing_bounds_always(g) ==
    IF Bird_out_of_field(g.bird) THEN Game_collision(g) ELSE g

Playing_bounds(g) ==
    IF ~g.invincible /\ Bird_out_of_field(g.bird) THEN Game_collision(g) ELSE g

\* A variant of Playing_particles: the gravity of each particle (vy += 0.2)
\* is added to the bird's velocity.
Playing_particles_pull_bird(g) ==
    [g EXCEPT !.particles =
                 SelectSeq([k \in 1 .. Len(@) |-> Particle_update(@[k])],
                           LAMBDA p : ~Particle_is_dead(p)),
              !.bird.velocity = @ + 4 * Len(g.particles)]

Playing_particles(g) ==
    [g EXCEPT !.particles =
        SelectSeq([k \in 1 .. Len(@) |-> Particle_update(@[k])],
                  LAMBDA p : ~Particle_is_dead(p))]

\* GameState::Playing, from the pipes to the particles.
Playing_rest(g) ==
    LET speed == (pipe_speed(g.difficulty) * time_scale(g)) \div 2
        g1 == Playing_pipes(g, 1, speed)
        g2 == Playing_retain(g1)
        g3 == Playing_bounds(g2)
        g4 == Playing_particles(g3)
    IN  [g4 EXCEPT !.hist.ticks = @ + 1]

\* A variant of Playing_pause: the return is missing, and the frame runs on.
Playing_pause_running(g) ==
    [Playing_rest(Playing_move(g)) EXCEPT !.state = "Paused"]

\* GameState::Playing: Escape, the early return.
Playing_pause(g) == [g EXCEPT !.state = "Paused"]

---------------------------------------------------------------------------
(* The frames.                                                             *)

KeyNames == {"Space", "Enter", "Escape", "Q", "H", "I", "S",
             "Key1", "Key2", "Key3", "Key4", "MouseLeft"}


G == [state |-> state, difficulty |-> difficulty, bird |-> bird,
      pipes |-> pipes, particles |-> particles, score |-> score,
      high_scores |-> high_scores, pipe_spawn_timer |-> pipe_spawn_timer,
      background_offset |-> background_offset,
      show_hitboxes |-> show_hitboxes, powerup_timer |-> powerup_timer,
      invincible |-> invincible, slow_motion |-> slow_motion,
      slow_motion_timer |-> slow_motion_timer, file |-> file, log |-> NoLog,
      hist |-> hist]

Commit(g) ==
    /\ state' = g.state
    /\ difficulty' = g.difficulty
    /\ bird' = g.bird
    /\ pipes' = g.pipes
    /\ particles' = g.particles
    /\ score' = g.score
    /\ high_scores' = g.high_scores
    /\ pipe_spawn_timer' = g.pipe_spawn_timer
    /\ background_offset' = g.background_offset
    /\ show_hitboxes' = g.show_hitboxes
    /\ powerup_timer' = g.powerup_timer
    /\ invincible' = g.invincible
    /\ slow_motion' = g.slow_motion
    /\ slow_motion_timer' = g.slow_motion_timer
    /\ file' = g.file
    /\ log' = g.log
    /\ hist' = g.hist

Handled(mode) ==
    CASE mode = "Menu" -> {"Space", "Enter", "Key1", "Key2", "Key3", "Key4"}
      [] mode = "Playing" -> {"Escape", "Space", "MouseLeft", "H", "I", "S"}
      [] mode = "Paused" -> {"Escape", "Space", "Q"}
      [] mode = "GameOver" -> {"Space", "Enter", "Escape", "Q"}

\* is_key_pressed / is_mouse_button_pressed of one frame, as the set of the
\* keys pressed: up to MaxKeys of the keys the mode handles, or all the keys
\* it does not handle.
KeySets(mode) ==
    {k \in SUBSET Handled(mode) : Cardinality(k) <= MaxKeys}
        \cup {KeyNames \ Handled(mode)}

MenuKeys == KeySets("Menu")
PlayingKeys == KeySets("Playing")
PausedKeys == KeySets("Paused")
GameOverKeys == KeySets("GameOver")

Idle(g, keys) == [g EXCEPT !.log.idle = (keys \cap Handled(g.state) = {})]

Begin(g) == [g EXCEPT !.log.mode = g.state]

\* The player starts a run only MaxRuns times, and selects the difficulty
\* before the first run.
MayStart(keys) ==
    /\ ("Space" \in keys \/ "Enter" \in keys) => hist.runs < MaxRuns
    /\ keys \cap {"Key1", "Key2", "Key3", "Key4"} # {} => hist.runs = 0

\* The frames of a run that are followed.
TickLimit == IF hist.runs <= 1 THEN MaxTicks ELSE RetryTicks

Followed ==
    /\ hist.ticks < TickLimit
    /\ bird.y <= Px(MaxDepth)
    /\ bird.y >= Px(0 - MaxHeight)

\* What the player does in Playing (see the bounds).
Rhythm == bird.velocity = JumpAfter * GRAVITY

Climbing == hist.streak >= 2

MayPlay(keys) ==
    LET jump == "Space" \in keys \/ "MouseLeft" \in keys
    IN  /\ jump => \/ Rhythm
                   \/ hist.streak = 1 /\ hist.ticks <= ClimbTicks
                   \/ Climbing
        /\ Climbing => jump /\ "Escape" \notin keys
        /\ "Escape" \in keys => Rhythm
        /\ "S" \in keys => hist.ticks = 0

MenuFrame ==
    /\ state = "Menu"
    /\ \E keys \in MenuKeys :
          /\ MayStart(keys)
          /\ Commit(Game_update_Menu(Idle(Begin(G), keys), keys))

PausedFrame ==
    /\ state = "Paused"
    /\ \E keys \in PausedKeys :
          Commit(Game_update_Paused(Idle(Begin(G), keys), keys))

GameOverFrame ==
    /\ state = "GameOver"
    /\ \E keys \in GameOverKeys :
          /\ MayStart(keys)
          /\ Commit(Game_update_GameOver(Idle(Begin(G), keys), keys))

\* Playing with Escape pressed: the early return.
PauseFrame ==
    /\ state = "Playing"
    /\ Followed
    /\ \E keys \in PlayingKeys :
          /\ MayPlay(keys)
          /\ "Escape" \in keys
          /\ Commit(Playing_pause(Begin(G)))

\* Playing without Escape: a frame of the run.
PlayingFrame ==
    /\ state = "Playing"
    /\ Followed
    /\ \E keys \in PlayingKeys :
          /\ MayPlay(keys)
          /\ "Escape" \notin keys
          /\ LET g1 == Playing_move(Playing_input(Begin(G), keys))
             IN  IF Playing_spawns(g1)
                 THEN \E gap_y \in GapYs(pipe_gap(g1.difficulty)) :
                         Commit(Playing_rest(Playing_spawn(g1, gap_y)))
                 ELSE Commit(Playing_rest(g1))

\* Game::update as a whole: the Game after the frame with the keys pressed
\* and, if the frame spawns a pipe, the gap_y drawn.
Game_update(g, keys, gap_y) ==
    CASE g.state = "Menu" -> Game_update_Menu(g, keys)
      [] g.state = "Paused" -> Game_update_Paused(g, keys)
      [] g.state = "GameOver" -> Game_update_GameOver(g, keys)
      [] g.state = "Playing" ->
            IF "Escape" \in keys THEN Playing_pause(g)
            ELSE LET g1 == Playing_move(Playing_input(g, keys))
                 IN  IF Playing_spawns(g1)
                     THEN Playing_rest(Playing_spawn(g1, gap_y))
                     ELSE Playing_rest(g1)

\* The inputs of the next frame that are explored: the keys, and the gap_y
\* the frame draws (one value is enough for a frame that spawns no pipe).
FrameInputs ==
    {in \in KeySets(state) \X GapYs(pipe_gap(difficulty)) :
        /\ state \in {"Menu", "GameOver"} => MayStart(in[1])
        /\ state = "Playing" => Followed /\ MayPlay(in[1])
        /\ (state # "Playing" \/ pipe_spawn_timer + 2 <= SPAWN_AFTER) =>
                in[2] = GapBandLow}

\* HighScores::load: the default (no file, or one that does not parse), or
\* the record of a file.
StoredRecords ==
    {HighScores_default,
     [easy |-> 2, medium |-> 0, hard |-> 3, extreme |-> 1]}

Start(g) ==
    /\ state = g.state
    /\ difficulty = g.difficulty
    /\ bird = g.bird
    /\ pipes = g.pipes
    /\ particles = g.particles
    /\ score = g.score
    /\ high_scores = g.high_scores
    /\ pipe_spawn_timer = g.pipe_spawn_timer
    /\ background_offset = g.background_offset
    /\ show_hitboxes = g.show_hitboxes
    /\ powerup_timer = g.powerup_timer
    /\ invincible = g.invincible
    /\ slow_motion = g.slow_motion
    /\ slow_motion_timer = g.slow_motion_timer
    /\ file = g.file
    /\ log = g.log
    /\ hist = g.hist

\* highscores.json when the program starts: no file, or the file written
\* for a record.
StoredFiles ==
    {IF r = HighScores_default THEN NoFile ELSE HighScores_save(r) :
        r \in StoredRecords}

Init == \E f \in StoredFiles : Start(Game_new(f))

Next ==
    \/ MenuFrame
    \/ PlayingFrame
    \/ PauseFrame
    \/ PausedFrame
    \/ GameOverFrame

Spec == Init /\ [][Next]_vars

---------------------------------------------------------------------------
(* HighScores::update on its own: every call on every record with bests    *)
(* and scores of BestRange.                                                *)

\* The largest best of a record and score of a call.
MaxBest == 2

BestRange == -1 .. MaxBest

InitUpdate ==
    \E e, m, h, x \in BestRange :
        Start([Game_new(HighScores_save(
                   [easy |-> e, medium |-> m, hard |-> h, extreme |-> x]))
                   EXCEPT !.file = NoFile])

UpdateCall ==
    \E d \in Difficulties, s \in BestRange :
        LET r == HighScores_update(high_scores, d, s)
        IN  /\ high_scores' = r.hs
            /\ log' = [NoLog EXCEPT !.mode = "Call",
                          !.hs_calls = <<[d |-> d, s |-> s, ret |-> r.ret]>>]
            /\ UNCHANGED <<state, difficulty, bird, pipes, particles, score,
                           pipe_spawn_timer, background_offset, show_hitboxes,
                           powerup_timer, invincible, slow_motion,
                           slow_motion_timer, file, hist>>

NextUpdate == UpdateCall

SpecUpdate == InitUpdate /\ [][NextUpdate]_vars

---------------------------------------------------------------------------
(* HighScores::save and HighScores::load on their own: every record with   *)
(* bests of StoreValues, saved and loaded, with writes that fail and files *)
(* that are missing or do not parse.                                       *)

StoreValues == {I32Min, -1, 0, 7, 2147483647}

StoreRecords ==
    {[easy |-> e, medium |-> m, hard |-> h, extreme |-> x] :
        e \in StoreValues, m \in StoreValues, h \in StoreValues,
        x \in StoreValues}

\* Texts that are not a HighScores record: nothing, a text cut short, no
\* JSON, a field that is missing, named twice, not a number, or not an i32.
CorruptTexts ==
    {<<>>,
     <<"{">>,
     <<"{", "}">>,
     <<"highscores">>,
     <<"{", "easy", ":", "1", ",", "medium", ":", "2", ",", "hard", ":", "3">>,
     <<"{", "easy", ":", "1", ",", "medium", ":", "2", ",", "hard", ":", "3",
       "}">>,
     <<"{", "easy", ":", "1", ",", "easy", ":", "1", ",", "medium", ":", "2",
       ",", "hard", ":", "3", ",", "extreme", ":", "4", "}">>,
     <<"{", "easy", ":", "-", ",", "medium", ":", "2", ",", "hard", ":", "3",
       ",", "extreme", ":", "4", "}">>,
     <<"{", "easy", ":", "x", ",", "medium", ":", "2", ",", "hard", ":", "3",
       ",", "extreme", ":", "4", "}">>,
     <<"{", "easy", ":", "2", "1", "4", "7", "4", "8", "3", "6", "4", "8", ",",
       "medium", ":", "2", ",", "hard", ":", "3", ",", "extreme", ":", "4",
       "}">>,
     <<"{", "easy", ":", "1", ",", "medium", ":", "2", ",", "hard", ":", "3",
       ",", "extreme", ":", "4", "}", "}">>}

InitStore ==
    \E f \in {NoFile} \cup {HighScores_save(r) : r \in StoreRecords}
                       \cup {Written(t) : t \in CorruptTexts} :
        Start(Game_new(f))

\* self.high_scores.save(): the write succeeds, or fails and leaves the file
\* as it was or empty.
SaveCall ==
    /\ \E ok \in BOOLEAN :
          /\ file' \in IF ok THEN {HighScores_save(high_scores)}
                             ELSE {file, Written(<<>>)}
          /\ log' = [mode |-> "Save", ok |-> ok, from |-> "memory"]
    /\ UNCHANGED <<gameVars, hist>>

\* HighScores::load() of the next start of the program
LoadCall ==
    /\ high_scores' = HighScores_load(file)
    /\ log' = [mode |-> "Load", ok |-> TRUE,
               from |-> IF log.mode = "Save" /\ log.ok THEN "save"
                        ELSE IF file.exists THEN "file" ELSE "missing"]
    /\ UNCHANGED <<state, difficulty, bird, pipes, particles, score,
                   pipe_spawn_timer, background_offset, show_hitboxes,
                   powerup_timer, invincible, slow_motion, slow_motion_timer,
                   file, hist>>

\* The file is removed or damaged between two runs of the program.
DamageCall ==
    /\ file' \in {NoFile} \cup {Written(t) : t \in CorruptTexts}
    /\ file' # file
    /\ log' = [mode |-> "Damage", ok |-> TRUE, from |-> "outside"]
    /\ UNCHANGED <<gameVars, hist>>

NextStore == SaveCall \/ LoadCall \/ DamageCall

SpecStore == InitStore /\ [][NextStore]_vars

---------------------------------------------------------------------------
(* Game::spawn_pipe on its own: in a run of every difficulty, one pipe with *)
(* every gap position the generator can draw, then advanced.               *)

\* Pipe::update calls followed after the spawn.
MaxSteps == 2

\* Bird::update on its own: birds at the top, the middle and the bottom of
\* the field, with velocities on both sides of both ends of the rotation
\* clamp (3 v' = -30 at v = -10.5, 3 v' = 90 at v = 29.5) and with the
\* rotations a bird can have.
BirdYs == {0, Px(300), Px(520)}

BirdVelocities ==
    {Px(-40), Px(-11), Px(-11) + GRAVITY, Px(-10), JUMP_STRENGTH, -GRAVITY, 0,
     GRAVITY, Px(29), Px(29) + GRAVITY, Px(30), Px(50)}

BirdRotations == {Px(-30), 0, Px(90)}

InitBird ==
    \E y \in BirdYs, v \in BirdVelocities, r \in BirdRotations :
        Start([Game_new(NoFile) EXCEPT
                  !.state = "Playing",
                  !.bird = [Bird_new(Px(150), y) EXCEPT !.velocity = v,
                                                        !.rotation = r]])

\* self.bird.update(), with the bird of before the call kept in the log.
BirdUpdateCall ==
    /\ hist.ticks < MaxSteps
    /\ bird' = Bird_update(bird)
    /\ log' = [mode |-> "Bird", from |-> bird]
    /\ hist' = [hist EXCEPT !.ticks = @ + 1]
    /\ UNCHANGED <<state, difficulty, pipes, particles, score, high_scores,
                   pipe_spawn_timer, background_offset, show_hitboxes,
                   powerup_timer, invincible, slow_motion, slow_motion_timer,
                   file>>

NextBird == BirdUpdateCall

SpecBird == InitBird /\ [][NextBird]_vars

\* Bird::jump on its own and in a Playing frame: the birds of InitBird and
\* birds falling at 3.0, with no pipe in the field.
JumpVelocities == BirdVelocities \cup {Px(3)}

InitJump ==
    \E y \in BirdYs, v \in JumpVelocities, r \in BirdRotations :
        Start([Game_new(NoFile) EXCEPT
                  !.state = "Playing",
                  !.bird = [Bird_new(Px(150), y) EXCEPT !.velocity = v,
                                                        !.rotation = r]])

\* self.bird.jump(), with the bird of before the call kept in the log.
BirdJumpCall ==
    /\ hist.ticks < MaxSteps
    /\ bird' = Bird_jump(bird)
    /\ log' = [mode |-> "Jump", from |-> bird, jump |-> TRUE]
    /\ hist' = [hist EXCEPT !.ticks = @ + 1]
    /\ UNCHANGED <<state, difficulty, pipes, particles, score, high_scores,
                   pipe_spawn_timer, background_offset, show_hitboxes,
                   powerup_timer, invincible, slow_motion, slow_motion_timer,
                   file>>

\* Game::update in Playing without Escape, with the bird of before the frame
\* and whether the frame had a jump input kept in the log.
JumpFrameCall ==
    /\ state = "Playing"
    /\ hist.ticks < MaxSteps
    /\ \E keys \in PlayingKeys :
          /\ "Escape" \notin keys
          /\ Commit([Game_update(Begin(G), keys, GapBandLow) EXCEPT
                        !.log = [mode |-> "Frame", from |-> bird,
                                 jump |-> ("Space" \in keys
                                           \/ "MouseLeft" \in keys)]])

NextJump == BirdJumpCall \/ JumpFrameCall

SpecJump == InitJump /\ [][NextJump]_vars

\* Runs that are left alone: a run is started from the menu on one of the
\* four difficulties and played for up to MaxLead frames by a player who
\* jumps at the velocity of Rhythm and may turn slow motion on in the first
\* frame; from any frame on the player may stop giving input, and the frames
\* without jump, pause or cheat input are then followed to the end of the
\* run. The main loop calls update() once per frame for as long as the
\* program runs, so a frame without input that can be run is run.
MaxLead == 280

QuietKeys ==
    {k \in PlayingKeys : k \cap {"Space", "MouseLeft", "Escape", "I", "S"} = {}}

LeadKeys == {{}, {"Space"}, {"MouseLeft"}, {"S"}}

InitFall ==
    \E k \in {"Key1", "Key2", "Key3", "Key4"} :
        Start(Game_update_Menu(Idle(Begin(Game_new(NoFile)), {k, "Space"}),
                               {k, "Space"}))

LeadFrame ==
    /\ state = "Playing"
    /\ hist.ticks < MaxLead
    /\ \E keys \in LeadKeys :
          /\ ("Space" \in keys \/ "MouseLeft" \in keys) <=> Rhythm
          /\ "S" \in keys => hist.ticks = 0
          /\ \E gap_y \in GapYs(pipe_gap(difficulty)) :
                \E g \in {Game_update(Begin(G), keys, gap_y)} : Commit(g)

FallFrame ==
    /\ state = "Playing"
    /\ bird.y <= Px(MaxDepth)
    /\ \E keys \in QuietKeys :
          \E gap_y \in GapYs(pipe_gap(difficulty)) :
             \E g \in {Game_update(Begin(G), keys, gap_y)} : Commit(g)

NextFall == LeadFrame \/ FallFrame

\* A Playing frame that does not pause, as it shows at the spawn timer:
\* every such frame changes pipe_spawn_timer (463-467), to 0 or by
\* time_scale, and in this specification no other step does.
FrameRuns ==
    /\ state = "Playing"
    /\ bird.y <= Px(MaxDepth)
    /\ pipe_spawn_timer' \in {0, pipe_spawn_timer + 1, pipe_spawn_timer + 2}

SpecFall ==
    InitFall /\ [][NextFall]_vars /\ WF_pipe_spawn_timer(FrameRuns)

\* Long runs: a run is started from the menu on one of the four
\* difficulties; the player may turn invincibility on in the first frame,
\* toggles slow motion in any of the frames that begin with the spawn timer
\* at 0 or at 45.5, and gives no other input, so that an invincible run goes
\* on for MaxFrames frames. Every pipe gets the same gap_y, which has no
\* part in where the pipes are.
MaxFrames == 960

EndlessKeys == {{}, {"I"}, {"S"}, {"I", "S"}}

EndlessFrame ==
    /\ state = "Playing"
    /\ hist.ticks < MaxFrames
    /\ \E keys \in EndlessKeys :
          /\ "I" \in keys => hist.ticks = 0
          /\ "S" \in keys => pipe_spawn_timer \in {0, 91}
          /\ \E g \in {Game_update(Begin(G), keys, GapBandLow)} : Commit(g)

NextEndless == EndlessFrame

SpecEndless == InitFall /\ [][NextEndless]_vars

InitPipe ==
    \E d \in Difficulties :
        Start([Game_new(NoFile) EXCEPT !.state = "Playing",
                                       !.difficulty = d])

\* self.spawn_pipe(), with the range handed to gen_range kept in the log.
SpawnCall ==
    /\ pipes = <<>>
    /\ \E gap_y \in GapRange(pipe_gap(difficulty)) :
          /\ pipes' = Game_spawn_pipe(G, gap_y).pipes
          /\ log' = [mode |-> "Spawn", low |-> GapBandLow,
                     high |-> GapBandHigh(pipe_gap(difficulty))]
          /\ hist' = [hist EXCEPT !.spawned = @ + 1]
    /\ UNCHANGED <<state, difficulty, bird, particles, score, high_scores,
                   pipe_spawn_timer, background_offset, show_hitboxes,
                   powerup_timer, invincible, slow_motion, slow_motion_timer,
                   file>>

\* pipe.update(speed) on every pipe
AdvanceCall ==
    /\ pipes # <<>>
    /\ hist.ticks < MaxSteps
    /\ pipes' = [k \in 1 .. Len(pipes) |->
                    Pipe_update(pipes[k], pipe_speed(difficulty))]
    /\ log' = [log EXCEPT !.mode = "Advance"]
    /\ hist' = [hist EXCEPT !.ticks = @ + 1]
    /\ UNCHANGED <<state, difficulty, bird, particles, score, high_scores,
                   pipe_spawn_timer, background_offset, show_hitboxes,
                   powerup_timer, invincible, slow_motion, slow_motion_timer,
                   file>>

NextPipe == SpawnCall \/ AdvanceCall

SpecPipe == InitPipe /\ [][NextPipe]_vars

---------------------------------------------------------------------------
(* The properties.                                                         *)

Max(a, b) == IF a >= b THEN a ELSE b

Others(d) == Difficulties \ {d}

\* C1: a call update(d, s) returns true iff s is greater than the best
\* stored for d before it; if it returns true the best for d is s and the
\* other three are as before; if it returns false the record is as before;
\* and a call with the d and s of the call before it returns false and leaves
\* the record as it is.
C1_UpdateContract ==
    [][log'.hs_calls # <<>> =>
         LET c == log'.hs_calls[1]
         IN  /\ c.ret <=> c.s > HighScores_get(high_scores, c.d)
             /\ c.ret =>
                  /\ HighScores_get(high_scores', c.d) = c.s
                  /\ \A e \in Others(c.d) :
                        HighScores_get(high_scores', e) = HighScores_get(high_scores, e)
             /\ ~c.ret => high_scores' = high_scores
             /\ (/\ log.hs_calls # <<>>
                 /\ log.hs_calls[1].d = c.d
                 /\ log.hs_calls[1].s = c.s)
                  => ~c.ret /\ high_scores' = high_scores]_vars

\* A call update(Hard, 2) has returned true and the best for Hard is 2.
C1_Witness ==
    /\ log.mode = "Call"
    /\ log.hs_calls = <<[d |-> "Hard", s |-> 2, ret |-> TRUE]>>
    /\ high_scores.hard = 2

\* C2: a frame that takes the mode from Playing to GameOver leaves the best
\* of the active difficulty at the larger of what it was and the score at the
\* end of the frame, and the other bests as they were; and whenever a frame
\* ends in GameOver, the score is at most the best of the active difficulty.
C2_BestAtGameOver ==
    [][/\ (state = "Playing" /\ state' = "GameOver") =>
            /\ HighScores_get(high_scores', difficulty)
                  = Max(HighScores_get(high_scores, difficulty), score')
            /\ \A e \in Others(difficulty) :
                  HighScores_get(high_scores', e) = HighScores_get(high_scores, e)
       /\ state' = "GameOver" =>
            score' <= HighScores_get(high_scores', difficulty')]_vars

\* The run has just ended on a pipe that was scored in the same frame, and
\* the score is the new best.
C2_Witness ==
    /\ state = "GameOver"
    /\ log.mode = "Playing"
    /\ score >= 1
    /\ HighScores_get(high_scores, difficulty) = score
    /\ log.hs_calls # <<>>
    /\ log.hs_calls[1].ret
    /\ \E i \in 1 .. Len(pipes) :
          /\ pipes[i].scored
          /\ Pipe_collides_with(pipes[i], bird)
          /\ pipes[i].x + PIPE_WIDTH
                + (pipe_speed(difficulty) * (IF slow_motion THEN 1 ELSE 2)) \div 2
                >= bird.x

\* C3: a Playing frame that leaves the invincible flag true does not end in
\* GameOver, calls neither HighScores::update nor save, and leaves the
\* record as it is.
C3_InvincibleIgnoresCollisions ==
    [][(state = "Playing" /\ invincible') =>
          /\ state' \in {"Playing", "Paused"}
          /\ log'.hs_calls = <<>>
          /\ log'.saves = 0
          /\ high_scores' = high_scores]_vars

\* An invincible bird has gone on playing while outside the field and inside
\* a pipe.
C3_Witness ==
    /\ state = "Playing"
    /\ log.mode = "Playing"
    /\ invincible
    /\ Bird_out_of_field(bird)
    /\ \E i \in 1 .. Len(pipes) : Pipe_collides_with(pipes[i], bird)

\* The bird's displacement over m frames of free fall from velocity v.
Fall(v, m) == m * v + GRAVITY * ((m * (m + 1)) \div 2)

\* C4: after N Playing frames in a row in slow motion and without a jump, the
\* bird has moved as far as in ceil(N / 2) frames at normal speed from the
\* same start.
C4_SlowMotionDilation ==
    hist.calm.n > 0 =>
        bird.y - hist.calm.y = Fall(hist.calm.velocity, (hist.calm.n + 1) \div 2)

\* C5: a pipe's scored flag is false when the pipe is created, is true at the
\* end of a frame exactly if the pipe's right edge is then left of the bird's
\* x (so it is set in the first update that moves the edge past the bird, and
\* not before), and is never set back while the pipe is in the collection.
C5_ScoredOnce ==
    [][\A j \in 1 .. Len(pipes') :
          LET q == pipes'[j]
              before == {i \in 1 .. Len(pipes) : pipes[i].id = q.id}
          IN  /\ q.scored <=> q.x + PIPE_WIDTH < bird'.x
              /\ before = {} => ~q.scored
              /\ \A i \in before : pipes[i].scored => q.scored
              /\ \A i \in before :
                    (~pipes[i].scored /\ q.scored) =>
                        /\ state = "Playing"
                        /\ ~(pipes[i].x + PIPE_WIDTH < bird.x)]_vars

\* A pipe has been scored and the run goes on.
C5_Witness ==
    /\ state = "Playing"
    /\ ~invincible
    /\ \E i \in 1 .. Len(pipes) : pipes[i].scored

ScoredIds(ps, h) ==
    {ps[i].id : i \in {j \in 1 .. Len(ps) : ps[j].scored}}
        \cup {r.id : r \in {q \in h.purged : q.scored}}

NewlyScored ==
    {j \in 1 .. Len(pipes') :
        /\ pipes'[j].scored
        /\ \A i \in 1 .. Len(pipes) : pipes[i].id = pipes'[j].id => ~pipes[i].scored}

\* C6: between two resets the score does not fall and a frame raises it by
\* the number of pipes whose scored flag the frame sets; at the end of a frame
\* it is the number of pipes created since the last reset whose flag is set,
\* those already removed included; and the score is raised for no pipe twice.
C6_ScoreCountsPipes ==
    [][/\ hist'.runs = hist.runs =>
            /\ score' >= score
            /\ score' - score = Cardinality(NewlyScored)
       /\ score' = Cardinality(ScoredIds(pipes', hist'))
       /\ Len(hist'.awards) = score'
       /\ \A a, b \in 1 .. Len(hist'.awards) :
             hist'.awards[a] = hist'.awards[b] => a = b]_vars

\* The score counts a pipe that has been removed.
C6_Witness ==
    /\ score >= 1
    /\ \E r \in hist.purged : r.scored

\* C7: the frame that pauses, every frame begun in Paused and so the frame
\* that resumes change nothing of the game but the mode.
C7_PauseKeepsGame ==
    [][((state = "Playing" /\ state' = "Paused") \/ state = "Paused") =>
          /\ state' \in {"Paused", "Playing", "Menu"}
          /\ UNCHANGED <<difficulty, bird, pipes, particles, score,
                         high_scores, pipe_spawn_timer, background_offset,
                         show_hitboxes, powerup_timer, invincible,
                         slow_motion, slow_motion_timer>>]_vars

\* Play has been resumed with pipes and particles on the field.
C7_Witness ==
    /\ state = "Playing"
    /\ log.mode = "Paused"
    /\ pipes # <<>>
    /\ particles # <<>>
    /\ hist.ticks > 0

EntersPlaying == state \in {"Menu", "GameOver"} /\ state' = "Playing"

FreshRun ==
    /\ bird' = Bird_new(Px(150), SCREEN_HEIGHT \div 2)
    /\ pipes' = <<>>
    /\ particles' = <<>>
    /\ score' = 0
    /\ pipe_spawn_timer' = 0
    /\ slow_motion_timer' = 0
    /\ ~invincible'
    /\ ~slow_motion'

ModeEdges ==
    {<<"Menu", "Playing">>, <<"Playing", "Paused">>, <<"Paused", "Playing">>,
     <<"Paused", "Menu">>, <<"Playing", "GameOver">>, <<"GameOver", "Playing">>,
     <<"GameOver", "Menu">>}

\* C9: the game starts in Menu; the mode changes from one frame to the next
\* only along the seven edges of ModeEdges; and a frame begun in Menu, Paused
\* or GameOver with none of the keys that mode handles leaves the mode as it
\* is.
C9_ModeEdges ==
    /\ state = "Menu"
    /\ [][/\ state' # state => <<state, state'>> \in ModeEdges
          /\ (state \in {"Menu", "Paused", "GameOver"} /\ log'.idle) =>
                state' = state]_vars

\* The game is back in Menu from GameOver.
C9_Witness ==
    /\ state = "Menu"
    /\ log.mode = "GameOver"
    /\ hist.runs >= 1

\* C10: a frame begun in Playing, Paused or GameOver leaves the difficulty as
\* it is; outside Menu every pipe's gap is the gap of the selected
\* difficulty; and a Playing update moves every pipe by the speed of the
\* selected difficulty, scaled by time_scale.
C10_DifficultyOnlyInMenu ==
    [][/\ state # "Menu" => difficulty' = difficulty
       /\ state' # "Menu" =>
            \A j \in 1 .. Len(pipes') :
                pipes'[j].gap_height = pipe_gap(difficulty')
       /\ (state = "Playing" /\ state' # "Paused") =>
            \A i \in 1 .. Len(pipes), j \in 1 .. Len(pipes') :
                pipes[i].id = pipes'[j].id =>
                    pipes[i].x - pipes'[j].x
                        = (pipe_speed(difficulty')
                              * (IF slow_motion' THEN 1 ELSE 2)) \div 2]_vars

\* A run on Hard, selected in Menu, has a pipe with the gap of Hard.
C10_Witness ==
    /\ state = "Playing"
    /\ difficulty = "Hard"
    /\ pipes # <<>>
    /\ pipes[1].gap_height = Px(140)
    /\ pipes[1].x < SCREEN_WIDTH

\* C11: only a frame that takes the mode from Playing to GameOver changes
\* the record of bests (so a frame begun in Menu, Paused or GameOver, the
\* frame that leaves Paused for Menu, and a Playing frame that goes on do
\* not); a best that changes is the best of the active difficulty, becomes
\* the score, which a call of HighScores::update in that frame found strictly
\* greater than the best before; and no best ever falls.
C11_RecordOnlyAtDeath ==
    [][/\ ~(state = "Playing" /\ state' = "GameOver") =>
            high_scores' = high_scores
       /\ \A d \in Difficulties :
            /\ HighScores_get(high_scores', d) >= HighScores_get(high_scores, d)
            /\ HighScores_get(high_scores', d) # HighScores_get(high_scores, d) =>
                  /\ d = difficulty
                  /\ HighScores_get(high_scores', d) = score'
                  /\ score' > HighScores_get(high_scores, d)
                  /\ \E k \in 1 .. Len(log'.hs_calls) :
                        /\ log'.hs_calls[k].ret
                        /\ log'.hs_calls[k].d = d]_vars

\* A run with a score above the best has been abandoned from Paused, and the
\* best is as it was.
C11_Witness ==
    /\ state = "Menu"
    /\ log.mode = "Paused"
    /\ score >= 1
    /\ score > HighScores_get(high_scores, difficulty)

\* The claim of C12 with `high` as the upper end of the band for the gap 180:
\* the band [150, 600 - 80 - gap - 100) of every difficulty is not empty;
\* every pipe of the collection has the gap of the selected difficulty and a
\* gap_y in the band of that gap, so that the lower end of its gap is more
\* than 100 above the ground line; and the range the generator draws from for
\* the gap 180 is [150, high).
GapBandFacts(high) ==
    /\ \A d \in Difficulties : Px(150) < Px(600 - 80 - 100) - pipe_gap(d)
    /\ \A i \in 1 .. Len(pipes) :
          /\ pipes[i].gap_height = pipe_gap(difficulty)
          /\ Px(150) <= pipes[i].gap_y
          /\ pipes[i].gap_y < Px(600 - 80 - 100) - pipes[i].gap_height
          /\ Px(600 - 80) - (pipes[i].gap_y + pipes[i].gap_height) > Px(100)
    /\ (log.mode = "Spawn" /\ pipe_gap(difficulty) = Px(180)) =>
          /\ log.low = Px(150)
          /\ log.high = high

\* C12, as claimed: the band of every difficulty is not empty, every pipe has
\* the gap of the difficulty it was spawned for and a gap_y in the band of
\* that gap (its gap ends more than 100 above the ground line), and for the
\* gap 180 the band is [150, 250).
C12_GapBandClaimed == GapBandFacts(Px(250))

\* C12, amended: the same, and for the gap 180 the band is [150, 240).
C12_GapBand == GapBandFacts(Px(240))

\* A pipe of Medium (gap 180) has been spawned with the highest gap_y below
\* 240.
C12_Witness ==
    /\ log.mode = "Spawn"
    /\ difficulty = "Medium"
    /\ Len(pipes) = 1
    /\ pipes[1].gap_height = Px(180)
    /\ pipes[1].gap_y = Px(240) - 1

\* C13: a load that follows a successful save yields the record that was
\* saved, in all four fields; a load of a missing file or of a text that is
\* not a record yields the all-zero record; and every load yields a record
\* (the game is in Menu with four bests).
C13_SaveLoadRoundTrip ==
    [][log'.mode = "Load" =>
          /\ (log.mode = "Save" /\ log.ok) =>
                /\ high_scores'.easy = high_scores.easy
                /\ high_scores'.medium = high_scores.medium
                /\ high_scores'.hard = high_scores.hard
                /\ high_scores'.extreme = high_scores.extreme
          /\ (~file.exists \/ file.text \in CorruptTexts) =>
                high_scores' = [easy |-> 0, medium |-> 0, hard |-> 0,
                                extreme |-> 0]
          /\ DOMAIN high_scores' = {"easy", "medium", "hard", "extreme"}
          /\ state' = "Menu"]_vars

\* A record with the least and the greatest i32 has been saved and loaded
\* again.
C13_Witness ==
    /\ log.mode = "Load"
    /\ log.from = "save"
    /\ high_scores = [easy |-> I32Min, medium |-> 7, hard |-> 2147483647,
                      extreme |-> -1]

\* C14: in every frame HighScores::save is called as many times as a call of
\* HighScores::update of that frame returned true (so it is called exactly if
\* one did); and, the writes succeeding, at the end of every frame loading
\* highscores.json yields the record in memory.
C14_SavedIffUpdated ==
    /\ log.saves = Cardinality({k \in 1 .. Len(log.hs_calls) : log.hs_calls[k].ret})
    /\ (log.saves > 0) <=> (\E k \in 1 .. Len(log.hs_calls) : log.hs_calls[k].ret)
    /\ HighScores_load(file) = high_scores

\* A run has ended with a score above the best: update returned true, the
\* record was saved once, and the file holds the new record.
C14_Witness ==
    /\ state = "GameOver"
    /\ score >= 1
    /\ Len(log.hs_calls) = 1
    /\ log.hs_calls[1].ret
    /\ log.saves = 1
    /\ file = HighScores_save(high_scores)
    /\ high_scores.extreme = score

\* The bird's hitbox (the square of side BIRD_SIZE - 10 around the bird) and
\* the span of pipe p meet in x.
MeetsInX(p) ==
    /\ bird.x - (BIRD_SIZE \div 2 - Px(5)) <= p.x + PIPE_WIDTH
    /\ bird.x + (BIRD_SIZE \div 2 - Px(5)) >= p.x

\* The hitbox meets the rows from top to bottom.
MeetsInY(top, bottom) ==
    /\ bird.y - (BIRD_SIZE \div 2 - Px(5)) <= bottom
    /\ bird.y + (BIRD_SIZE \div 2 - Px(5)) >= top

\* C15: at the end of every frame, if the mode is Playing and invincible is
\* false, the bird is strictly between the ceiling and the ground line
\* (y - BIRD_SIZE/2 > 0 and y + BIRD_SIZE/2 < 600 - 80), and its hitbox meets
\* neither the top rectangle (rows 0 to gap_y) nor the bottom rectangle (rows
\* gap_y + gap_height to the ground line) of any pipe, not even at an edge.
C15_PlayingMeansNoCollision ==
    (state = "Playing" /\ ~invincible) =>
        /\ bird.y - BIRD_SIZE \div 2 > 0
        /\ bird.y + BIRD_SIZE \div 2 < Px(600 - 80)
        /\ \A i \in 1 .. Len(pipes) :
              /\ ~(MeetsInX(pipes[i]) /\ MeetsInY(0, pipes[i].gap_y))
              /\ ~(MeetsInX(pipes[i])
                     /\ MeetsInY(pipes[i].gap_y + pipes[i].gap_height,
                                 Px(600 - 80)))

\* The bird is inside the gap of a pipe, and the run goes on.
C15_Witness ==
    /\ state = "Playing"
    /\ log.mode = "Playing"
    /\ ~invincible
    /\ \E i \in 1 .. Len(pipes) : MeetsInX(pipes[i])

\* The particles of a death burst.
DeathParticles(ps) == {k \in 1 .. Len(ps) : ps[k].color = "RED"}

\* C16: a frame that takes the mode from Playing to GameOver, however many
\* obstacles the bird hits in it, has the effects of a frame with one
\* collision: the mode is GameOver, the best of the active difficulty is the
\* larger of what it was and the score, the other bests are as they were, and
\* one death burst (30 particles) has been spawned, not one per collision.
C16_OneDeathBurst ==
    [][(state = "Playing" /\ state' = "GameOver") =>
          /\ HighScores_get(high_scores', difficulty)
                = Max(HighScores_get(high_scores, difficulty), score')
          /\ \A e \in Others(difficulty) :
                HighScores_get(high_scores', e) = HighScores_get(high_scores, e)
          /\ Cardinality(DeathParticles(particles')) = 30]_vars

\* The Game without its particles.
Gameplay(g) == [g EXCEPT !.particles = <<>>]

\* Another particle collection the game could hold in place of ps: two
\* particles more, and every life of ps one update shorter.
OtherParticles(ps) ==
    {<<[color |-> "RED", life |-> 1], [color |-> "GOLD", life |-> LIFE]>>
        \o [k \in 1 .. Len(ps) |->
               [ps[k] EXCEPT !.life = IF @ > 1 THEN @ - 1 ELSE @]]}

\* C17: in every state, for every input of the next frame, the frame run on
\* the game with other particles yields the same mode, bird, pipes, score,
\* timers, flags, bests and file as the frame run on the game as it is: two
\* runs that agree on everything but the particles and get the same inputs
\* agree on everything but the particles after every frame.
C17_ParticlesCosmetic ==
    \A in \in FrameInputs :
        \A ps \in OtherParticles(particles) :
            Gameplay(Game_update([G EXCEPT !.particles = ps], in[1], in[2]))
                = Gameplay(Game_update(G, in[1], in[2]))

\* A run goes on with the particles of a jump and of a scored pipe in the
\* air.
C17_Witness ==
    /\ state = "Playing"
    /\ log.mode = "Playing"
    /\ ~invincible
    /\ \E k \in 1 .. Len(particles) : particles[k].color = "GOLD"
    /\ \E k \in 1 .. Len(particles) : particles[k].color = "SKYBLUE"

\* The pipes of the collection after the step that were not in it before.
SpawnedNow ==
    {j \in 1 .. Len(pipes') :
        \A i \in 1 .. Len(pipes) : pipes[i].id # pipes'[j].id}

\* C18: a Playing update (a frame begun in Playing that does not pause) adds
\* time_scale to the spawn timer (2 half frames, 1 in slow motion); if the
\* timer then exceeds 90 frames the update spawns exactly one pipe, unscored
\* and at x = screen_width + 50 before its first advance, and leaves the timer
\* at 0, and otherwise it spawns none; no other frame spawns a pipe; the
\* timer is in [0, 90] after every frame; and in a run at normal speed the
\* k-th pipe is spawned in the Playing update 91 k, in a run in slow motion
\* in the update 181 k.
C18_SpawnCadence ==
    [][LET ts == IF slow_motion' THEN 1 ELSE 2
           grown == pipe_spawn_timer + ts
           step == (pipe_speed(difficulty) * ts) \div 2
       IN  /\ (state = "Playing" /\ state' # "Paused") =>
                 /\ grown > 2 * 90 =>
                       /\ Cardinality(SpawnedNow) = 1
                       /\ pipe_spawn_timer' = 0
                       /\ \A j \in SpawnedNow :
                             /\ ~pipes'[j].scored
                             /\ pipes'[j].x + step = Px(800 + 50)
                       /\ hist'.ticks
                             = hist'.spawned * (IF slow_motion' THEN 181 ELSE 91)
                 /\ grown <= 2 * 90 =>
                       /\ SpawnedNow = {}
                       /\ pipe_spawn_timer' = grown
           /\ ~(state = "Playing" /\ state' # "Paused") => SpawnedNow = {}
           /\ pipe_spawn_timer' >= 0
           /\ pipe_spawn_timer' <= 2 * 90]_vars

\* The second pipe of a run at normal speed has just been spawned, 91 updates
\* after the first.
C18_Witness ==
    /\ state = "Playing"
    /\ log.mode = "Playing"
    /\ ~slow_motion
    /\ hist.ticks = 2 * 91
    /\ hist.spawned = 2
    /\ pipe_spawn_timer = 0
    /\ Len(pipes) = 2
    /\ pipes[2].x - pipes[1].x = 91 * pipe_speed(difficulty)


\* The indices of the collection before the step whose pipe is no longer in
\* the collection after it.
GoneNow ==
    {i \in 1 .. Len(pipes) :
        \A j \in 1 .. Len(pipes') : pipes'[j].id # pipes[i].id}

\* C19: after every frame no pipe of the collection has its right edge left
\* of the screen (x + PIPE_WIDTH < 0); the collection is in the order of
\* spawning with strictly increasing x; a pipe leaves the collection only in
\* a Playing update in which its right edge, after its advance, is left of
\* the screen, or in the reset of a Menu or GameOver frame, which empties
\* the collection; and the pipes that stay keep their relative order and
\* are the pipes of before, advanced.
C19_PurgeKeepsOrder ==
    [][LET ts == IF slow_motion' THEN 1 ELSE 2
           step == (pipe_speed(difficulty) * ts) \div 2
           started == state \in {"Menu", "GameOver"}
                      /\ hist'.runs = hist.runs + 1
           played == state = "Playing" /\ state' # "Paused"
       IN  /\ \A j \in 1 .. Len(pipes') : ~(pipes'[j].x + PIPE_WIDTH < 0)
           /\ \A j \in 1 .. Len(pipes') - 1 :
                 /\ pipes'[j].id < pipes'[j + 1].id
                 /\ pipes'[j].x < pipes'[j + 1].x
           /\ \A i \in GoneNow :
                 \/ started /\ pipes' = <<>>
                 \/ played /\ pipes[i].x - step + PIPE_WIDTH < 0
           /\ \A i1, i2 \in (1 .. Len(pipes)) \ GoneNow :
                 i1 < i2 =>
                    \E j1, j2 \in 1 .. Len(pipes') :
                       /\ j1 < j2
                       /\ pipes'[j1].id = pipes[i1].id
                       /\ pipes'[j2].id = pipes[i2].id
           /\ played =>
                 \A i \in (1 .. Len(pipes)) \ GoneNow :
                    \E j \in 1 .. Len(pipes') :
                       /\ pipes'[j].id = pipes[i].id
                       /\ pipes'[j].x = pipes[i].x - step]_vars

\* A Playing update has just removed the first pipe of the run and kept the
\* two behind it, in their order.
C19_Witness ==
    /\ state = "Playing"
    /\ log.mode = "Playing"
    /\ Cardinality(hist.purged) = 1
    /\ \E r \in hist.purged : r.id = 1
    /\ Len(pipes) = 2
    /\ pipes[1].id = 2
    /\ pipes[2].id = 3
    /\ pipes[1].x < pipes[2].x
    /\ pipes[1].x + PIPE_WIDTH >= 0


\* C20: Bird::update turns a bird (y, v) into the bird with velocity v + 0.5,
\* y + (v + 0.5) (the new velocity is added, not the old one) and rotation
\* clamp(3 (v + 0.5), -30, 90), whatever its rotation was, and leaves x as
\* it is; from y = 300, v = 0 it gives v = 0.5, y = 300.5 and rotation 1.5;
\* and the rotation after the call is in [-30, 90].
C20_BirdUpdate ==
    [][LET half == Px(1) \div 2
           v == bird.velocity + half
           turned == 3 * v
       IN  /\ bird'.velocity = v
           /\ bird'.y = bird.y + v
           /\ bird'.x = bird.x
           /\ turned < Px(-30) => bird'.rotation = Px(-30)
           /\ turned > Px(90) => bird'.rotation = Px(90)
           /\ (turned >= Px(-30) /\ turned <= Px(90)) =>
                 bird'.rotation = turned
           /\ bird'.rotation >= Px(-30)
           /\ bird'.rotation <= Px(90)
           /\ (bird.y = Px(300) /\ bird.velocity = 0) =>
                 /\ bird'.velocity = half
                 /\ bird'.y = Px(300) + half
                 /\ bird'.rotation = 3 * half]_vars

\* The bird at y = 300 with velocity 0 has just been updated once.
C20_Witness ==
    /\ log.mode = "Bird"
    /\ hist.ticks = 1
    /\ log.from.y = Px(300)
    /\ log.from.velocity = 0
    /\ log.from.rotation = Px(90)
    /\ bird.velocity = 10
    /\ bird.y = 6010
    /\ bird.rotation = 30
    /\ bird.x = Px(150)


\* C21: Bird::jump sets the velocity to -8.0 whatever it was before (it does
\* not add to it) and leaves x and y as they are; and a Playing frame with a
\* jump input applies the impulse before the physics step, so that the bird
\* ends the frame with the velocity -8.0 + 0.5 and has moved by it, whatever
\* its velocity was before the frame.
C21_JumpOverrides ==
    [][LET after == Px(-8) + Px(1) \div 2
       IN  /\ log'.mode = "Jump" =>
                 /\ bird'.velocity = Px(-8)
                 /\ bird'.x = bird.x
                 /\ bird'.y = bird.y
           /\ (log'.mode = "Frame" /\ log'.jump) =>
                 /\ bird'.velocity = after
                 /\ bird'.y = bird.y + after
                 /\ bird'.x = bird.x]_vars

\* Bird::jump has just been called on a bird falling at 3.0.
C21_Witness ==
    /\ log.mode = "Jump"
    /\ log.from.velocity = Px(3)
    /\ log.from.y = Px(300)
    /\ bird.velocity = Px(-8)
    /\ bird.y = Px(300)
    /\ bird.x = Px(150)


\* A Playing frame without jump, pause or cheat-toggle input.
QuietStep ==
    /\ state = "Playing"
    /\ state' # "Paused"
    /\ hist'.streak = 0
    /\ invincible' = invincible
    /\ slow_motion' = slow_motion

\* C22: if from some frame on every frame is a Playing frame without jump,
\* pause or cheat-toggle input, the game does not stay in Playing with
\* invincible = false: after finitely many frames the run has ended.
C22_LeftAloneEnds ==
    <>[][QuietStep]_vars => []<>(state # "Playing" \/ invincible)

\* A run of slow motion that was left alone after some frames of play has
\* just ended on the ground line.
C22_Witness ==
    /\ state = "GameOver"
    /\ log.mode = "Playing"
    /\ ~invincible
    /\ slow_motion
    /\ hist.streak = 0
    /\ hist.ticks > JumpAfter + 1
    /\ hist.ticks < MaxLead
    /\ bird.y + BIRD_SIZE \div 2 >= SCREEN_HEIGHT - GROUND_HEIGHT


\* What C23 says of the pipes, with the least distance of consecutive pipes
\* given in half frames of travel at pipe_speed.
PipeBoundFacts(halves) ==
    /\ Len(pipes) <= 6
    /\ \A i \in 1 .. Len(pipes) - 1 :
          2 * (pipes[i + 1].x - pipes[i].x) >= halves * pipe_speed(difficulty)
    /\ \A i \in 1 .. Len(pipes) :
          Px(800 + 50) - pipes[i].x <= Px(800 + 50) + PIPE_WIDTH

\* C23 as stated: at the end of every frame the collection holds at most 6
\* pipes, consecutive pipes are at least 90.5 x pipe_speed apart, and no
\* pipe of the collection has travelled more than screen_width + 50 +
\* PIPE_WIDTH from where it was spawned.
C23_AtMostSixPipesClaimed == PipeBoundFacts(181)

\* C23: at the end of every frame the collection holds at most 6 pipes, on
\* every difficulty, in runs of any length and with slow motion toggled or
\* not: consecutive pipes are at least 90 x pipe_speed apart, and no pipe of
\* the collection has travelled more than screen_width + 50 + PIPE_WIDTH
\* from where it was spawned.
C23_AtMostSixPipes == PipeBoundFacts(180)

\* An invincible run on Easy holds 6 pipes after its first purge, two of
\* them only 90 x pipe_speed apart: the earlier one was spawned in a frame
\* of slow motion, the later one in a frame at normal speed.
C23_Witness ==
    /\ state = "Playing"
    /\ log.mode = "Playing"
    /\ invincible
    /\ difficulty = "Easy"
    /\ hist.purged # {}
    /\ Len(pipes) = 6
    /\ \E i \in 1 .. 5 :
          pipes[i + 1].x - pipes[i].x = 90 * pipe_speed(difficulty)

=============================================================================
